---- MODULE Spec2Model ----
(***************************************************************************)
(* A model of lib/model.js (ModelBaseClass): the construction pipeline     *)
(* _initProperties, the change tracker (propertyChanged, reset) and the    *)
(* serializer (toObject, toJSON, fromObject) of one model instance.        *)
(*                                                                         *)
(* JavaScript values are records [t, v, n]: t is the kind, v the text of   *)
(* a primitive or the name of an object handed in by the caller, n the     *)
(* allocation number of an object created by the code (0 otherwise).  Two  *)
(* references are identical exactly when the records are equal.            *)
(***************************************************************************)
EXTENDS Integers, Sequences, FiniteSets, TLC

VARIABLES
  phase,            \* "new" before construction, "ready" after, "failed" when the constructor threw
  settingsStrict,   \* ctor.definition.settings.strict
  input,            \* the data object handed to the constructor (key -> value)
  inputKeys,        \* its keys in enumeration order
  applySetters,     \* options.applySetters as _initProperties sees it
  strict,           \* this.__strict
  data,             \* this.__data
  dataWas,          \* this.__dataWas
  cachedRelations,  \* this.__cachedRelations
  own,              \* own enumerable properties set by plain assignment
  mutated,          \* objects whose content was changed in place
  nextId,           \* allocation counter for objects the code creates
  out,              \* result of the last toObject / toJSON call
  lastOp,           \* the last operation that ran
  lastArg,          \* its argument, where the claims need it
  resetDone,        \* reset() has run on the instance
  ops               \* number of mutating operations after construction

vars == <<phase, settingsStrict, input, inputKeys, applySetters, strict, data,
          dataWas, cachedRelations, own, mutated, nextId, out, lastOp, lastArg,
          resetDone, ops>>

-----------------------------------------------------------------------------
(* Bounds *)

MaxKeys == 3
MaxOps == 3

-----------------------------------------------------------------------------
(* Values *)

Val(t, v, n) == [t |-> t, v |-> v, n |-> n]
Undef == Val("undefined", "", 0)
Null == Val("null", "", 0)
Num(s) == Val("number", s, 0)
Str(s) == Val("string", s, 0)
Fn(name) == Val("function", name, 0)
Obj(name) == Val("object", name, 0)
Arr(name) == Val("array", name, 0)
ListV(name) == Val("list", name, 0)

EmptyMap == [k \in {} |-> Undef]
Get(m, k) == IF k \in DOMAIN m THEN m[k] ELSE Undef
Put(m, k, v) == [x \in (DOMAIN m) \cup {k} |-> IF x = k THEN v ELSE m[x]]
Remove(m, k) == [x \in (DOMAIN m) \ {k} |-> m[x]]

RECURSIVE SelectKeys(_, _)
SelectKeys(seq, S) ==
  IF seq = <<>> THEN <<>>
  ELSE IF Head(seq) \in S THEN <<Head(seq)>> \o SelectKeys(Tail(seq), S)
       ELSE SelectKeys(Tail(seq), S)

RECURSIVE Reverse(_)
Reverse(seq) == IF seq = <<>> THEN <<>> ELSE Reverse(Tail(seq)) \o <<Head(seq)>>

\* typeof v
TypeOf(v) ==
  IF v.t \in {"null", "object", "array", "list"} THEN "object" ELSE v.t

\* ToBoolean(v), as used by `a || b` and `x && y`
Truthy(v) ==
  /\ v.t \notin {"undefined", "null"}
  /\ ~(v.t = "number" /\ v.v = "0")
  /\ ~(v.t = "string" /\ v.v = "")
  /\ ~(v.t = "boolean" /\ v.v = "false")

IsRef(v) == v.t \in {"object", "array", "list", "function"}

-----------------------------------------------------------------------------
(* The model definition the instance is built from *)

BASE_TYPES == {"String", "Boolean", "Number", "Date", "Text"}

PropOrder == <<"name", "age", "tags", "meta", "ownerId">>
Properties == {PropOrder[i] : i \in 1..Len(PropOrder)}

PropType ==
  [name |-> "String", age |-> "Number", tags |-> "Array", meta |-> "Object",
   ownerId |-> "Number"]

\* kind "literal": val is the default itself; kind "factory": the default is a
\* function and val is what it returns; kind "none": no default is declared
PropDefault ==
  [name    |-> [kind |-> "literal", val |-> Str("anon")],
   age     |-> [kind |-> "factory", val |-> Num("18")],
   tags    |-> [kind |-> "none", val |-> Undef],
   meta    |-> [kind |-> "literal", val |-> Str("{}")],
   ownerId |-> [kind |-> "none", val |-> Undef]]

Relations == [owner |-> [keyFrom |-> "ownerId", keyTo |-> "id"]]
RelationNames == DOMAIN Relations

StrictModes == {"undefined", "true", "false", "throw"}

-----------------------------------------------------------------------------
(* Collaborators of model.js that live outside it *)

\* nested[keyTo]: the fields of the related objects a caller hands in
Field(v, key) ==
  IF v = Obj("owner5") /\ key = "id" THEN Num("5")
  ELSE IF v = Obj("owner0") /\ key = "id" THEN Num("0")
  ELSE Undef

\* the entries of a pre-resolved __cachedRelations map a caller hands in
RelationCacheEntries(v) ==
  IF v = Obj("relCache") THEN [owner |-> Obj("ownerPre")] ELSE EmptyMap

\* v instanceof List
IsList(v) == v.t = "list"

\* new List(items, type, parent)
NewList(items, id) == Val("list", "new", id)

\* v.toObject exists: among the values of the model only a List has it
HasToObject(v) == IsList(v)

\* v.toObject(onlySchema) of a List
ListToObject(v, onlySchema) ==
  Val(IF onlySchema THEN "plain(schema)" ELSE "plain(all)", v.v, v.n)

\* the type constructor the property setter applies to a value
Normalize(type, v) ==
  IF type = "Number" /\ v.t = "string" /\ v.v \in {"0", "5", "9", "30", "31"}
    THEN Num(v.v)
  ELSE IF type = "String" /\ v.t = "number" THEN Str(v.v)
  ELSE v

\* obj[k] = v: a declared property goes through its setter into __data,
\* any other name becomes a plain own property of the instance
SetProp(k, v, st) ==
  IF k \in Properties
    THEN IF PropType[k] = "Array"
           THEN IF IsList(v) THEN [st EXCEPT !.data = Put(st.data, k, v)]
                ELSE [st EXCEPT !.data = Put(st.data, k, NewList(v, st.nextId)),
                                !.nextId = st.nextId + 1]
           ELSE [st EXCEPT !.data = Put(st.data, k, Normalize(PropType[k], v))]
    ELSE [st EXCEPT !.own = Put(st.own, k, v)]

\* obj[k + '$was']: no such property is populated on the instance
CompanionWas(k, st) == Undef

-----------------------------------------------------------------------------
(* _initProperties *)

\* clone(data): cloning is disabled, the value itself is returned
clone(v) == v

\* a faulty variant of IngestKey: the foreign key is stored under the relation name
IngestKey_WrongKey(i, v, strictMode, st) ==
  IF i \in Properties /\ TypeOf(v) # "function"
    THEN [st EXCEPT !.data = Put(st.data, i, clone(v)),
                    !.dataWas = Put(st.dataWas, i, clone(v))]
  ELSE IF i \in RelationNames
    THEN [st EXCEPT !.data = Put(st.data, i, Field(v, Relations[i].keyTo)),
                    !.dataWas = Put(st.dataWas, i, Field(v, Relations[i].keyTo)),
                    !.cr = Put(st.cr, i, v)]
  ELSE IF strictMode = "false"
    THEN [st EXCEPT !.data = Put(st.data, i, clone(v)),
                    !.dataWas = Put(st.dataWas, i, clone(v))]
  ELSE IF strictMode = "throw"
    THEN [st EXCEPT !.thrown = TRUE]
  ELSE st

\* src lines 119-130: one iteration of the first loop over the input keys
IngestKey(i, v, strictMode, st) ==
  IF i \in Properties /\ TypeOf(v) # "function"
    THEN [st EXCEPT !.data = Put(st.data, i, clone(v)),
                    !.dataWas = Put(st.dataWas, i, clone(v))]
  ELSE IF i \in RelationNames
    THEN [st EXCEPT !.data = Put(st.data, Relations[i].keyFrom, Field(v, Relations[i].keyTo)),
                    !.dataWas = Put(st.dataWas, i, Field(v, Relations[i].keyTo)),
                    !.cr = Put(st.cr, i, v)]
  ELSE IF strictMode = "false"
    THEN [st EXCEPT !.data = Put(st.data, i, clone(v)),
                    !.dataWas = Put(st.dataWas, i, clone(v))]
  ELSE IF strictMode = "throw"
    THEN [st EXCEPT !.thrown = TRUE]
  ELSE st

RECURSIVE IngestKeys(_, _, _, _)
IngestKeys(keys, d, strictMode, st) ==
  IF keys = <<>> \/ st.thrown THEN st
  ELSE IngestKeys(Tail(keys), d, strictMode,
                  IngestKey(Head(keys), d[Head(keys)], strictMode, st))

\* src lines 133-139
RECURSIVE ApplySetters(_, _, _)
ApplySetters(keys, d, st) ==
  IF keys = <<>> THEN st
  ELSE LET k == Head(keys)
           cur == Get(st.data, k)
           st2 == IF TypeOf(d[k]) # "function" /\ (k \in Properties \/ k \in RelationNames)
                    THEN SetProp(k, IF Truthy(cur) THEN cur ELSE d[k], st)
                    ELSE st
       IN ApplySetters(Tail(keys), d, st2)

\* src lines 142-148
RECURSIVE MirrorUnknown(_, _, _)
MirrorUnknown(keys, d, st) ==
  IF keys = <<>> THEN st
  ELSE LET k == Head(keys)
           cur == Get(st.data, k)
           st2 == IF TypeOf(d[k]) # "function" /\ k \notin Properties
                    THEN SetProp(k, IF Truthy(cur) THEN cur ELSE d[k], st)
                    ELSE st
       IN MirrorUnknown(Tail(keys), d, st2)

\* a faulty variant of getDefault: a default factory is not called
getDefault_NoFactory(propertyName) ==
  LET def == PropDefault[propertyName] IN
  IF def.kind = "literal" THEN def.val ELSE Undef

\* def(): what a default factory returns when it is called
CallFactory(def) == def.val

\* src lines 181-192
getDefault(propertyName) ==
  LET def == PropDefault[propertyName] IN
  IF def.kind # "none"
    THEN IF def.kind = "factory" THEN CallFactory(def) ELSE def.val
    ELSE Undef

\* src lines 150-158
RECURSIVE FillDefaults(_, _)
FillDefaults(props, st) ==
  IF props = <<>> THEN st
  ELSE LET p == Head(props)
           st2 == IF Undef = Get(st.data, p)
                    THEN [st EXCEPT !.data = Put(st.data, p, getDefault(p)),
                                    !.dataWas = Put(st.dataWas, p, getDefault(p))]
                    ELSE [st EXCEPT !.dataWas = Put(st.dataWas, p, st.data[p])]
       IN FillDefaults(Tail(props), st2)

\* v + '' for the values that reach JSON.parse
ToText(v) == IF v.t = "function" THEN "function () {}" ELSE v.v

\* src lines 165-171: JSON.parse(v + ''), and String(v) when it throws
ParseOrString(v, id) ==
  LET text == ToText(v) IN
  IF text = "[1]" THEN [val |-> Val("array", "parsed", id), used |-> 1]
  ELSE IF text = "{}" THEN [val |-> Val("object", "parsed", id), used |-> 1]
  ELSE IF v.t = "number" \/ v.t = "boolean" THEN [val |-> v, used |-> 0]
  ELSE IF v.t = "string" /\ text \in {"0", "5", "9", "30", "31"}
    THEN [val |-> Num(text), used |-> 0]
  ELSE [val |-> Str(text), used |-> 0]

\* a faulty variant of CoerceProperty: the List wrapping is left out
CoerceProperty_NoWrap(p, st) ==
  IF PropType[p] \notin BASE_TYPES
    THEN LET cur == Get(st.data, p)
             parsed == IF TypeOf(cur) # "object" /\ Truthy(cur)
                         THEN ParseOrString(cur, st.nextId)
                         ELSE [val |-> cur, used |-> 0]
         IN [st EXCEPT !.data = Put(st.data, p, parsed.val),
                       !.nextId = st.nextId + parsed.used]
    ELSE st

\* src lines 162-177: the coercion of one property
CoerceProperty(p, st) ==
  IF PropType[p] \notin BASE_TYPES
    THEN LET cur == Get(st.data, p)
             parsed == IF TypeOf(cur) # "object" /\ Truthy(cur)
                         THEN ParseOrString(cur, st.nextId)
                         ELSE [val |-> cur, used |-> 0]
             st2 == [st EXCEPT !.data = Put(st.data, p, parsed.val),
                               !.nextId = st.nextId + parsed.used]
         IN IF PropType[p] = "Array" /\ ~IsList(st2.data[p])
              THEN [st2 EXCEPT !.data = Put(st2.data, p, NewList(st2.data[p], st2.nextId)),
                               !.nextId = st2.nextId + 1]
              ELSE st2
    ELSE st

\* src lines 160-179
RECURSIVE CoerceTypes(_, _)
CoerceTypes(props, st) ==
  IF props = <<>> THEN st
  ELSE CoerceTypes(Tail(props), CoerceProperty(Head(props), st))

\* src lines 59-195
InitProperties(d, keys, strictMode, setters) ==
  LET st0 == [data |-> EmptyMap, dataWas |-> EmptyMap,
              cr |-> IF "__cachedRelations" \in DOMAIN d /\ Truthy(d["__cachedRelations"])
                       THEN RelationCacheEntries(d["__cachedRelations"])
                       ELSE EmptyMap,
              own |-> EmptyMap, nextId |-> nextId, thrown |-> FALSE]
      st1 == IngestKeys(keys, d, strictMode, st0)
      st2 == IF setters = TRUE THEN ApplySetters(keys, d, st1) ELSE st1
      st3 == IF strictMode = "false" THEN MirrorUnknown(keys, d, st2) ELSE st2
      st4 == FillDefaults(PropOrder, st3)
      st5 == CoerceTypes(PropOrder, st4)
  IN IF st1.thrown THEN st1 ELSE st5

-----------------------------------------------------------------------------
(* propertyChanged, toObject, reset, fromObject on an instance state *)

\* a faulty variant of propertyChanged: === in place of !==
propertyChanged_Equal(propertyName, d, was) ==
  Get(d, propertyName) = Get(was, propertyName)

\* src lines 309-311
propertyChanged(propertyName, d, was) ==
  Get(d, propertyName) # Get(was, propertyName)

PropertyChanged(p) == propertyChanged(p, data, dataWas)

\* src lines 253-257, 271-275, 282-286: a nested value serializes itself
Serialize(val, onlySchema) ==
  IF val # Undef /\ val # Null /\ HasToObject(val)
    THEN ListToObject(val, onlySchema)
    ELSE val

\* a faulty variant of SchemaLess: the onlySchema argument is ignored
SchemaLess_StrictOnly(strictMode, onlySchema) == strictMode = "false"

\* src line 247: schemaLess
SchemaLess(strictMode, onlySchema) == (strictMode = "false") \/ ~onlySchema

\* src lines 239-291; onlySchemaArg is "undefined", "true" or "false"
toObject(onlySchemaArg, strictMode, d, o) ==
  LET onlySchema == IF onlySchemaArg = "undefined" THEN TRUE ELSE onlySchemaArg = "true"
      schemaLess == SchemaLess(strictMode, onlySchema)
      \* self[k]: the getter of a declared property reads __data
      self(k) == IF k \in Properties THEN Get(d, k) ELSE Get(o, k)
      hasOwn(k) == k \in DOMAIN o
      declared ==
        [p \in Properties |->
           IF IsList(self(p)) THEN ListToObject(self(p), ~schemaLess)
           ELSE IF p \in DOMAIN d THEN Serialize(self(p), ~schemaLess)
           ELSE Null]
      ownKeys == {k \in DOMAIN o : k \notin DOMAIN declared}
      withOwn ==
        [k \in (DOMAIN declared) \cup ownKeys |->
           IF k \in DOMAIN declared THEN declared[k]
           ELSE Serialize(self(k), ~schemaLess)]
      dataKeys == {k \in DOMAIN d : k \notin DOMAIN withOwn}
      withData ==
        [k \in (DOMAIN withOwn) \cup dataKeys |->
           IF k \in DOMAIN withOwn THEN withOwn[k]
           ELSE Serialize(IF hasOwn(k) THEN self(k) ELSE d[k], ~schemaLess)]
  IN IF schemaLess THEN withData ELSE declared

\* src lines 293-295
toJSON(strictMode, d, o) == toObject("false", strictMode, d, o)

\* the keys `for (var k in obj)` visits: own enumerable properties, then the
\* enumerable accessors of the declared properties
AllKeys ==
  <<"name", "age", "tags", "meta", "ownerId", "owner", "extra", "id",
    "__cachedRelations">>

EnumerableKeys(o) ==
  SelectKeys(AllKeys, DOMAIN o) \o PropOrder

\* src lines 322-327: one iteration of reset's loop
ResetKey(k, st) ==
  LET st1 == IF k # "id" /\ k \notin Properties
               THEN [st EXCEPT !.own = Remove(st.own, k)]
               ELSE st
  IN IF propertyChanged(k, st1.data, st1.dataWas)
       THEN SetProp(k, CompanionWas(k, st1), st1)
       ELSE st1

\* src lines 319-329
RECURSIVE ResetKeys(_, _)
ResetKeys(keys, st) ==
  IF keys = <<>> THEN st ELSE ResetKeys(Tail(keys), ResetKey(Head(keys), st))

\* src lines 297-301
RECURSIVE AssignKeys(_, _, _)
AssignKeys(keys, obj, st) ==
  IF keys = <<>> THEN st
  ELSE AssignKeys(Tail(keys), obj, SetProp(Head(keys), obj[Head(keys)], st))

Instance == [data |-> data, dataWas |-> dataWas, cr |-> cachedRelations,
             own |-> own, nextId |-> nextId, thrown |-> FALSE]

-----------------------------------------------------------------------------
(* Inputs *)

InputValues(k) ==
  CASE k = "name" -> {Str("bob"), Fn("f")}
    [] k = "age" -> {Num("30"), Num("0")}
    [] k = "tags" -> {Arr("inputTags"), ListV("inputList"), Str("[1]"), Str("abc")}
    [] k = "meta" -> {Obj("inputMeta"), Str("{}")}
    [] k = "ownerId" -> {Num("9")}
    [] k = "owner" -> {Obj("owner5"), Obj("owner0"), Obj("ownerNoId")}
    [] k = "extra" -> {Num("1")}
    [] k = "id" -> {Num("7")}
    [] k = "__cachedRelations" -> {Obj("relCache")}

InputKeySet == {AllKeys[i] : i \in 1..Len(AllKeys)}

RECURSIVE InputsOver(_)
InputsOver(S) ==
  IF S = {} THEN {EmptyMap}
  ELSE LET k == CHOOSE x \in S : TRUE
       IN {Put(m, k, v) : m \in InputsOver(S \ {k}), v \in InputValues(k)}

\* the inputs of the instances whose later life is followed
Scenarios ==
  {EmptyMap,
   [name |-> Str("bob"), extra |-> Num("1")],
   [extra |-> Num("1"), id |-> Num("7")],
   [age |-> Num("30"), tags |-> Arr("inputTags")],
   [meta |-> Obj("inputMeta"), owner |-> Obj("owner5")],
   [name |-> Fn("f"), tags |-> ListV("inputList")],
   [age |-> Num("0"), ownerId |-> Num("9"), extra |-> Num("1")]}

\* the objects fromObject is called with
AssignedObjects ==
  {[name |-> Str("zed")], [name |-> Str("bob")],
   [tags |-> Arr("assignedTags")], [extra |-> Num("2")],
   [age |-> Str("31"), meta |-> Obj("inputMeta")]}

-----------------------------------------------------------------------------
(* Actions *)

\* the state before `new Model(...)`, for a model whose settings.strict is s
Fresh(s) ==
  /\ phase = "new"
  /\ settingsStrict = s
  /\ input = EmptyMap
  /\ inputKeys = <<>>
  /\ applySetters = FALSE
  /\ strict = "undefined"
  /\ data = EmptyMap
  /\ dataWas = EmptyMap
  /\ cachedRelations = EmptyMap
  /\ own = EmptyMap
  /\ mutated = {}
  /\ nextId = 1
  /\ out = EmptyMap
  /\ lastOp = "none"
  /\ lastArg = "none"
  /\ resetDone = FALSE
  /\ ops = 0

Init == Fresh("undefined")

InitConstruction == \E s \in {"undefined", "throw"} : Fresh(s)

\* src lines 30-37: new Model(d, options); optSetters is "absent", "true" or "false"
Construct(d, keys, optStrict, optSetters) ==
  /\ phase = "new"
  /\ LET setters == IF optSetters = "absent" THEN TRUE ELSE optSetters = "true"
         strictMode == IF optStrict = "undefined" THEN settingsStrict ELSE optStrict
         r == InitProperties(d, keys, strictMode, setters)
     IN /\ input' = d
        /\ inputKeys' = keys
        /\ applySetters' = setters
        /\ strict' = strictMode
        /\ phase' = IF r.thrown THEN "failed" ELSE "ready"
        /\ data' = IF r.thrown THEN EmptyMap ELSE r.data
        /\ dataWas' = IF r.thrown THEN EmptyMap ELSE r.dataWas
        /\ cachedRelations' = IF r.thrown THEN EmptyMap ELSE r.cr
        /\ own' = IF r.thrown THEN EmptyMap ELSE r.own
        /\ nextId' = IF r.thrown THEN nextId ELSE r.nextId
  /\ lastOp' = "construct"
  /\ lastArg' = "none"
  /\ out' = EmptyMap
  /\ UNCHANGED <<settingsStrict, mutated, resetDone, ops>>

\* construction from every input of at most MaxKeys keys, in either key order
ConstructAny ==
  /\ phase = "new"
  /\ \E S \in {T \in SUBSET InputKeySet : Cardinality(T) <= MaxKeys} :
      \E d \in InputsOver(S), rev \in BOOLEAN,
          optStrict \in StrictModes, optSetters \in {"absent", "true", "false"} :
        Construct(d, IF rev THEN Reverse(SelectKeys(AllKeys, S)) ELSE SelectKeys(AllKeys, S),
                  optStrict, optSetters)

\* construction of the instances whose later life is followed
ConstructScenario ==
  /\ phase = "new"
  /\ \E d \in Scenarios, optStrict \in StrictModes, optSetters \in {"absent", "false"} :
      Construct(d, SelectKeys(AllKeys, DOMAIN d), optStrict, optSetters)

\* src lines 297-301
FromObject(obj) ==
  /\ phase = "ready"
  /\ ops < MaxOps
  /\ LET r == AssignKeys(SelectKeys(AllKeys, DOMAIN obj), obj, Instance)
     IN /\ data' = r.data
        /\ own' = r.own
        /\ nextId' = r.nextId
  /\ ops' = ops + 1
  /\ lastOp' = "fromObject"
  /\ lastArg' = "none"
  /\ out' = EmptyMap
  /\ UNCHANGED <<phase, settingsStrict, input, inputKeys, applySetters, strict,
                 dataWas, cachedRelations, mutated, resetDone>>

\* a caller changes the content of the object stored under p, without assigning p
MutateInPlace(p) ==
  /\ phase = "ready"
  /\ ops < MaxOps
  /\ p \in DOMAIN data
  /\ IsRef(data[p])
  /\ data[p] \notin mutated
  /\ mutated' = mutated \cup {data[p]}
  /\ ops' = ops + 1
  /\ lastOp' = "mutate"
  /\ lastArg' = p
  /\ out' = EmptyMap
  /\ UNCHANGED <<phase, settingsStrict, input, inputKeys, applySetters, strict,
                 data, dataWas, cachedRelations, own, nextId, resetDone>>

\* src lines 319-329
Reset ==
  /\ phase = "ready"
  /\ ops < MaxOps
  /\ LET r == ResetKeys(EnumerableKeys(own), Instance)
     IN /\ data' = r.data
        /\ own' = r.own
        /\ nextId' = r.nextId
  /\ resetDone' = TRUE
  /\ ops' = ops + 1
  /\ lastOp' = "reset"
  /\ lastArg' = "none"
  /\ out' = EmptyMap
  /\ UNCHANGED <<phase, settingsStrict, input, inputKeys, applySetters, strict,
                 dataWas, cachedRelations, mutated>>

\* src lines 347-349
SetStrict(s) ==
  /\ phase = "ready"
  /\ ops < MaxOps
  /\ s # strict
  /\ strict' = s
  /\ ops' = ops + 1
  /\ lastOp' = "setStrict"
  /\ lastArg' = s
  /\ out' = EmptyMap
  /\ UNCHANGED <<phase, settingsStrict, input, inputKeys, applySetters, data,
                 dataWas, cachedRelations, own, mutated, nextId, resetDone>>

\* src lines 239-291
ToObject(onlySchemaArg) ==
  /\ phase = "ready"
  /\ out' = toObject(onlySchemaArg, strict, data, own)
  /\ lastOp' = "toObject"
  /\ lastArg' = onlySchemaArg
  /\ UNCHANGED <<phase, settingsStrict, input, inputKeys, applySetters, strict,
                 data, dataWas, cachedRelations, own, mutated, nextId, resetDone, ops>>

\* src lines 293-295
ToJSON ==
  /\ phase = "ready"
  /\ out' = toJSON(strict, data, own)
  /\ lastOp' = "toJSON"
  /\ lastArg' = "none"
  /\ UNCHANGED <<phase, settingsStrict, input, inputKeys, applySetters, strict,
                 data, dataWas, cachedRelations, own, mutated, nextId, resetDone, ops>>

Next ==
  \/ ConstructScenario
  \/ \E obj \in AssignedObjects : FromObject(obj)
  \/ \E p \in Properties : MutateInPlace(p)
  \/ Reset
  \/ \E s \in StrictModes : SetStrict(s)
  \/ \E a \in {"undefined", "true", "false"} : ToObject(a)
  \/ ToJSON

Spec == Init /\ [][Next]_vars

NextConstruction == ConstructAny

SpecConstruction == InitConstruction /\ [][NextConstruction]_vars

-----------------------------------------------------------------------------
(* Properties *)

Ready == phase = "ready"

\* position of key k in the input's enumeration order (0 when absent)
KeyIndex(k) ==
  IF k \in DOMAIN input
    THEN CHOOSE i \in 1..Len(inputKeys) : inputKeys[i] = k
    ELSE 0

UnknownKeys == {k \in DOMAIN input : k \notin Properties /\ k \notin RelationNames}

\* C1: construction fails if and only if the resolved strict mode is "throw"
\* and the input holds a key that is neither a declared property nor a
\* relation; a declared property never causes the failure, whatever its value.
C1_FailsIffUnknownKey ==
  phase # "new" =>
    ((phase = "failed") <=> (strict = "throw" /\ UnknownKeys # {}))

\* C2: on an instance built with strict: false and extra: 1, toObject(true)
\* leaves the key extra out and toObject(false) has extra: 1.
C2_ExtraOnlyWhenNotOnlySchema ==
  (/\ Ready /\ ops = 0 /\ strict = "false"
   /\ Get(input, "extra") = Num("1")
   /\ lastOp = "toObject" /\ lastArg \in {"true", "false"})
  => IF lastArg = "false"
       THEN "extra" \in DOMAIN out /\ Get(out, "extra") = Num("1")
       ELSE "extra" \notin DOMAIN out

\* the declared properties the input does not supply
Unsupplied == Properties \ DOMAIN input

\* p is the foreign key of a relation the input supplies
SetByRelation(p) ==
  \E r \in RelationNames \cap DOMAIN input : Relations[r].keyFrom = p

\* C3: after initialization every declared property that the input does not
\* supply holds its default in data and the same value in dataWas.
C3_UnsuppliedHoldsDefault ==
  Ready =>
    \A p \in Unsupplied :
      /\ Get(data, p) = PropDefault[p].val
      /\ Get(dataWas, p) = PropDefault[p].val

\* the coercion pass of _initProperties leaves a default of this property as it is
DefaultSurvivesCoercion(p) ==
  \/ PropType[p] \in BASE_TYPES
  \/ /\ PropType[p] # "Array"
     /\ (TypeOf(PropDefault[p].val) = "object" \/ ~Truthy(PropDefault[p].val))

\* C3 (amended): for every declared property that the input does not supply
\* and that is not the foreign key of a supplied relation, dataWas holds the
\* default; data holds the same value when the property is of a base type (or
\* of a structured, non-array type with a falsy or object default), and a List
\* when the property is array-typed.
C3_UnsuppliedHoldsDefault_Amended ==
  Ready =>
    \A p \in Unsupplied :
      ~SetByRelation(p) =>
        /\ p \in DOMAIN data /\ p \in DOMAIN dataWas
        /\ dataWas[p] = PropDefault[p].val
        /\ DefaultSurvivesCoercion(p) => data[p] = PropDefault[p].val
        /\ PropType[p] = "Array" => IsList(data[p])

C3_Witness ==
  /\ Ready
  /\ {"name", "age"} \subseteq Unsupplied
  /\ data["name"] = Str("anon") /\ dataWas["name"] = Str("anon")
  /\ data["age"] = Num("18") /\ dataWas["age"] = Num("18")

\* C4: after initialization an array-typed property always holds a List,
\* whatever the input held for it, and a List handed in is kept as it is.
C4_ArrayPropertyIsList ==
  Ready =>
    \A p \in Properties :
      PropType[p] = "Array" =>
        /\ p \in DOMAIN data
        /\ IsList(data[p])
        /\ (p \in DOMAIN input /\ IsList(input[p])) => data[p] = input[p]

C4_Witness ==
  /\ Ready
  /\ ~applySetters
  /\ Get(input, "tags") = Arr("inputTags")
  /\ data["tags"] = NewList(Arr("inputTags"), 1)

BaseSupplied ==
  {p \in Properties \cap DOMAIN input :
     PropType[p] \in BASE_TYPES /\ input[p].t \in {"string", "number", "boolean"}}

C5_UnchangedAfterConstruction ==
  (Ready /\ lastOp = "construct") => \A p \in BaseSupplied : ~PropertyChanged(p)

C5_ReassignmentDetected ==
  \A p \in BaseSupplied :
    (lastOp' = "fromObject" /\ ~PropertyChanged(p) /\ Get(data', p) # Get(data, p))
      => PropertyChanged(p)'

C5_MutationNotDetected ==
  lastOp' = "mutate" =>
    \A p \in Properties : PropertyChanged(p)' = PropertyChanged(p)

SuppliedRelations == {r \in RelationNames \cap DOMAIN input : input[r].t = "object"}

\* C6: a nested object under a relation name ends in cachedRelations, and the
\* foreign key property holds the nested object's keyTo field, for every input.
C6_RelationIngested ==
  Ready =>
    \A r \in SuppliedRelations :
      /\ Get(cachedRelations, r) = input[r]
      /\ Get(data, Relations[r].keyFrom) = Field(input[r], Relations[r].keyTo)

\* the input's own value for the foreign key of r does not override the nested one
ForeignKeyNotOverridden(r) ==
  LET kf == Relations[r].keyFrom IN
  \/ kf \notin DOMAIN input
  \/ /\ KeyIndex(kf) < KeyIndex(r)
     /\ (~applySetters \/ Truthy(Field(input[r], Relations[r].keyTo)))

\* C6 (amended): cachedRelations[r] is the nested object for every input
\* containing r; data[keyFrom] equals nested[keyTo] when the input does not
\* carry keyFrom, or carries it before r and (with setters applied)
\* nested[keyTo] is truthy.
C6_RelationIngested_Amended ==
  Ready =>
    \A r \in SuppliedRelations :
      /\ r \in DOMAIN cachedRelations
      /\ cachedRelations[r] = input[r]
      /\ ForeignKeyNotOverridden(r) =>
           Get(data, Relations[r].keyFrom) = Field(input[r], Relations[r].keyTo)

C6_Witness ==
  /\ Ready
  /\ inputKeys = <<"ownerId", "owner", "__cachedRelations">>
  /\ input["owner"] = Obj("owner5")
  /\ cachedRelations["owner"] = Obj("owner5")
  /\ data["ownerId"] = Num("5")

\* C7: after reset() no declared property is reported changed.
C7_ResetRestoresBaseline ==
  (Ready /\ lastOp = "reset") => \A p \in Properties : ~PropertyChanged(p)

C8_SerializationReadsOnly ==
  lastOp' \in {"toObject", "toJSON"} =>
    UNCHANGED <<data, dataWas, cachedRelations, strict, own>>

C8_ToJSONIgnoresStrict ==
  (Ready /\ lastOp = "toJSON") =>
    \A s \in StrictModes : out = toObject("false", s, data, own)

\* C8: toObject and toJSON change nothing of the instance, and toJSON returns
\* what toObject(false) returns under every strict mode.
C8_SerializationIsPure ==
  /\ [][C8_SerializationReadsOnly]_vars
  /\ [](C8_ToJSONIgnoresStrict)

C8_Witness ==
  /\ Ready
  /\ lastOp = "toJSON"
  /\ strict = "true"
  /\ "extra" \in DOMAIN out
  /\ out # toObject("true", strict, data, own)

\* C9: after initialization dataWas holds the very value data holds, for
\* every declared property.
C9_BaselineIsCoercedValue ==
  Ready => \A p \in Properties : Get(dataWas, p) = Get(data, p)

\* the free-form keys construction accepted into the data store
FreeForm ==
  {k \in UnknownKeys : k # "id" /\ k \in DOMAIN dataWas}

\* C10: after reset() a free-form key is no own property of the instance and
\* is absent from toObject(false) and toJSON().
C10_FreeFormDiscarded ==
  (/\ Ready /\ resetDone /\ ops = 1
   /\ (lastOp = "toJSON" \/ (lastOp = "toObject" /\ lastArg = "false")))
  => \A k \in FreeForm : k \notin DOMAIN own /\ k \notin DOMAIN out

====
